---- MODULE Spec2Model ----
(***************************************************************************)
(* Model of mnemosyne_groq.py: the SQLite storage functions, the context   *)
(* builder, the completion client and the Streamlit handlers that drive    *)
(* them.  One action is one script run triggered by one widget event.      *)
(*                                                                         *)
(* Text is a sequence of fragments (strings); user input and API replies   *)
(* are given character by character so that str.strip() has work to do.    *)
(* SQL NULL / Python None is the empty tuple, a present value v is <<v>>.  *)
(* The non-ASCII warning sign that opens the placeholder strings in the    *)
(* source is written "(!)".                                                *)
(***************************************************************************)
EXTENDS Integers, Sequences, FiniteSets, TLC

VARIABLES
    db,                  \* the SQLite file: tables sessions, conversation_turns, sqlite_sequence
    now,                 \* datetime.datetime.now(): a logical clock, one tick per read
    current_session_id,  \* st.session_state.current_session_id
    session_history,     \* st.session_state.session_history
    therapeutic_mode,    \* st.session_state.therapeutic_mode
    groq_api_key,        \* st.session_state.groq_api_key
    lastOp,              \* the handler that ran last, with its input and the completion call it made
    appended,            \* history variable: the save_turn calls made so far, in call order
    call                 \* a direct call of one function: its arguments and its result

vars == <<db, now, current_session_id, session_history, therapeutic_mode,
          groq_api_key, lastOp, appended, call>>

uiVars == <<current_session_id, session_history, therapeutic_mode, groq_api_key, lastOp>>

-----------------------------------------------------------------------------
(* Bounds of the model *)

MaxTime == 10
MaxSessions == 2
MaxHistory == 3
MaxWindow == 3
MaxApiCalls == 3

-----------------------------------------------------------------------------
(* Values *)

NULL == <<>>
None == <<>>

Some(v) == <<v>>

Truthy(x) == x # None /\ x[1] # 0

SPEAKERS == {"PATIENT", "THERAPIST", "SYSTEM"}

SESSION_TYPES == {"Initial Assessment", "Follow-up"}

PATIENT_IDS == {"anonymous"}

API_KEYS == {"", "gsk_key"}

mode_labels ==
    [ exploratory_dialogue |-> "Exploratory Dialogue",
      trauma_processing    |-> "Trauma Processing",
      cognitive_reframing  |-> "Cognitive Reframing",
      narrative_therapy    |-> "Narrative Therapy" ]

MODES == DOMAIN mode_labels

\* The modes the user picks in the selectbox.
MODE_CHOICES == {"exploratory_dialogue", "cognitive_reframing"}

THERAPEUTIC_SYSTEMS ==
    [ trauma_processing    |-> [system_prompt |-> <<"You are a trauma-informed therapeutic AI assistant ...">>,
                                temperature   |-> "0.7"],
      cognitive_reframing  |-> [system_prompt |-> <<"You are a cognitive-behavioral therapy (CBT) assistant ...">>,
                                temperature   |-> "0.6"],
      narrative_therapy    |-> [system_prompt |-> <<"You are a narrative therapy specialist ...">>,
                                temperature   |-> "0.7"],
      exploratory_dialogue |-> [system_prompt |-> <<"You are an empathetic conversational AI ...">>,
                                temperature   |-> "0.8"] ]

GREETING == <<"Hello, I'm here to listen and support you. This is a safe space to explore whatever is on your mind. What would you like to talk about today?">>

\* What the user may type into the text area.
PATIENT_INPUTS ==
    { <<" ", "h", "i", " ">>,
      <<"o", "k", " ", "/", "/", "E", "n", "d", " ", "n", "o", "w", "\n">>,
      <<" ", "\n">> }

-----------------------------------------------------------------------------
(* str.strip() *)

IsSpace(c) == c \in {" ", "\n", "\t"}

RECURSIVE lstrip(_)
lstrip(t) ==
    IF t = <<>> THEN <<>>
    ELSE IF IsSpace(Head(t)) THEN lstrip(Tail(t)) ELSE t

RECURSIVE rstrip(_)
rstrip(t) ==
    IF t = <<>> THEN <<>>
    ELSE IF IsSpace(t[Len(t)]) THEN rstrip(SubSeq(t, 1, Len(t) - 1)) ELSE t

strip(t) == rstrip(lstrip(t))

-----------------------------------------------------------------------------
(* Storage *)

init_db ==
    [ sessions           |-> {},
      conversation_turns |-> {},
      sqlite_sequence    |-> [sessions |-> 0, conversation_turns |-> 0] ]

\* The INSERT also fills ended_at with the start time.
create_session_ended(d, ts, session_type, patient_id) ==
    LET lastrowid == d.sqlite_sequence.sessions + 1
        row == [ id           |-> lastrowid,
                 started_at   |-> ts,
                 ended_at     |-> Some(ts),
                 session_type |-> session_type,
                 patient_id   |-> patient_id,
                 summary      |-> NULL ]
    IN  [ db         |-> [d EXCEPT !.sessions = @ \cup {row},
                                   !.sqlite_sequence.sessions = lastrowid],
          session_id |-> lastrowid ]

\* The id returned is one past the row inserted.
create_session_wrong_id(d, ts, session_type, patient_id) ==
    LET lastrowid == d.sqlite_sequence.sessions + 1
        row == [ id           |-> lastrowid,
                 started_at   |-> ts,
                 ended_at     |-> NULL,
                 session_type |-> session_type,
                 patient_id   |-> patient_id,
                 summary      |-> NULL ]
    IN  [ db         |-> [d EXCEPT !.sessions = @ \cup {row},
                                   !.sqlite_sequence.sessions = lastrowid],
          session_id |-> lastrowid + 1 ]

create_session(d, ts, session_type, patient_id) ==
    LET lastrowid == d.sqlite_sequence.sessions + 1
        row == [ id           |-> lastrowid,
                 started_at   |-> ts,
                 ended_at     |-> NULL,
                 session_type |-> session_type,
                 patient_id   |-> patient_id,
                 summary      |-> NULL ]
    IN  [ db         |-> [d EXCEPT !.sessions = @ \cup {row},
                                   !.sqlite_sequence.sessions = lastrowid],
          session_id |-> lastrowid ]

end_session(d, ts, session_id, summary) ==
    [d EXCEPT !.sessions =
        { IF s.id = session_id
          THEN [s EXCEPT !.ended_at = Some(ts), !.summary = Some(summary)]
          ELSE s : s \in @ }]

\* Every caller leaves metadata at its default, so json.dumps(metadata or {}) is "{}".
save_turn(d, ts, session_id, speaker, message, message_type) ==
    LET lastrowid == d.sqlite_sequence.conversation_turns + 1
        row == [ id           |-> lastrowid,
                 session_id   |-> session_id,
                 timestamp    |-> ts,
                 speaker      |-> speaker,
                 message      |-> message,
                 message_type |-> message_type,
                 metadata     |-> "{}" ]
    IN  [d EXCEPT !.conversation_turns = @ \cup {row},
                  !.sqlite_sequence.conversation_turns = lastrowid]

\* ORDER BY id ASC
RECURSIVE OrderByIdAsc(_)
OrderByIdAsc(rows) ==
    IF rows = {} THEN <<>>
    ELSE LET first == CHOOSE r \in rows : \A q \in rows : r.id <= q.id
         IN  <<first>> \o OrderByIdAsc(rows \ {first})

\* ORDER BY id DESC
RECURSIVE OrderByIdDesc(_)
OrderByIdDesc(rows) ==
    IF rows = {} THEN <<>>
    ELSE LET first == CHOOSE r \in rows : \A q \in rows : r.id >= q.id
         IN  <<first>> \o OrderByIdDesc(rows \ {first})

SelectTurnColumns(r) ==
    [ timestamp    |-> r.timestamp,
      speaker      |-> r.speaker,
      message      |-> r.message,
      message_type |-> r.message_type,
      metadata     |-> r.metadata ]

RECURSIVE ToRecords(_)
ToRecords(ordered) ==
    IF ordered = <<>> THEN <<>>
    ELSE <<SelectTurnColumns(Head(ordered))>> \o ToRecords(Tail(ordered))

\* The query with ORDER BY id DESC.
get_session_history_desc(d, session_id) ==
    LET rows == { r \in d.conversation_turns : r.session_id = session_id }
    IN  ToRecords(OrderByIdDesc(rows))

get_session_history(d, session_id) ==
    LET rows == { r \in d.conversation_turns : r.session_id = session_id }
    IN  ToRecords(OrderByIdAsc(rows))

get_all_sessions(d) == OrderByIdDesc(d.sessions)

-----------------------------------------------------------------------------
(* Context builder *)

\* s[k:] as Python evaluates it: a negative k counts from the end, and -0 is 0.
PySliceFrom(s, k) ==
    LET n     == Len(s)
        start == IF k < 0 THEN (IF n + k < 0 THEN 0 ELSE n + k)
                          ELSE (IF k > n THEN n ELSE k)
    IN  SubSeq(s, start + 1, n)

RECURSIVE ContextMessages(_)
ContextMessages(recent) ==
    IF recent = <<>> THEN <<>>
    ELSE LET turn == Head(recent)
         IN  ( IF turn.speaker = "PATIENT"
                 THEN << [role |-> "user", content |-> turn.message] >>
               ELSE IF turn.speaker = "THERAPIST"
                 THEN << [role |-> "assistant", content |-> turn.message] >>
               ELSE <<>> )
             \o ContextMessages(Tail(recent))

build_conversation_context(history, max_turns) ==
    LET recent == IF Len(history) > max_turns
                  THEN PySliceFrom(history, 0 - max_turns)
                  ELSE history
    IN  ContextMessages(recent)

DEFAULT_MAX_TURNS == 10

-----------------------------------------------------------------------------
(* Completion client *)

\* What requests.post can do: raise, or return a response.
Response(status_code, text, has_choices, content) ==
    [ exc |-> "", detail |-> <<>>, status_code |-> status_code, text |-> text,
      json |-> [has_choices |-> has_choices, content |-> content] ]

Raises(exc, detail) ==
    [ exc |-> exc, detail |-> detail, status_code |-> 0, text |-> <<>>,
      json |-> [has_choices |-> FALSE, content |-> <<>>] ]

NoOutcome == Raises("none", <<>>)

OUTCOMES ==
    { Response(200, <<"{choices}">>, TRUE, <<"\n", " ", "T", "e", "l", "l", " ", "m", "e", " ">>),
      Response(200, <<"{}">>, FALSE, <<>>),
      Response(401, <<"invalid key">>, FALSE, <<>>),
      Response(429, <<"slow down">>, FALSE, <<>>),
      Response(500, <<"internal error">>, FALSE, <<>>),
      Raises("Timeout", <<"read timed out">>),
      Raises("ConnectionError", <<"connection refused">>) }

Returned(value) == [raised |-> FALSE, exc |-> "", value |-> value]

Raised(exc) == [raised |-> TRUE, exc |-> exc, value |-> <<>>]

NoReply == Returned(<<>>)

\* The outcomes tried for the summary request of "End Session".
SUMMARY_OUTCOMES == { o \in OUTCOMES : o.exc = "Timeout" \/ o.status_code \in {200, 500} }

\* The try block without its branch for status 429.
CompletionTry_no429(outcome) ==
    IF outcome.exc # "" THEN [exc |-> outcome.exc, detail |-> outcome.detail, value |-> <<>>]
    ELSE IF outcome.status_code = 200 THEN
        IF outcome.json.has_choices
        THEN [exc |-> "", detail |-> <<>>, value |-> strip(outcome.json.content)]
        ELSE [exc |-> "KeyError", detail |-> <<"'choices'">>, value |-> <<>>]
    ELSE IF outcome.status_code = 401 THEN
        [exc |-> "", detail |-> <<>>,
         value |-> <<"(!) Invalid API Key. Please check your Groq API key.">>]
    ELSE
        [exc |-> "", detail |-> <<>>,
         value |-> <<"(!) API Error (Status ", ToString(outcome.status_code), "): ">>
                   \o outcome.text]

\* The body of the try block of generate_ai_response, once requests.post is over:
\* a value it returns, or an exception it leaves to the except clauses.
CompletionTry(outcome) ==
    IF outcome.exc # "" THEN [exc |-> outcome.exc, detail |-> outcome.detail, value |-> <<>>]
    ELSE IF outcome.status_code = 200 THEN
        IF outcome.json.has_choices
        THEN [exc |-> "", detail |-> <<>>, value |-> strip(outcome.json.content)]
        ELSE [exc |-> "KeyError", detail |-> <<"'choices'">>, value |-> <<>>]
    ELSE IF outcome.status_code = 401 THEN
        [exc |-> "", detail |-> <<>>,
         value |-> <<"(!) Invalid API Key. Please check your Groq API key.">>]
    ELSE IF outcome.status_code = 429 THEN
        [exc |-> "", detail |-> <<>>,
         value |-> <<"(!) Rate limit exceeded. Please wait a moment and try again.">>]
    ELSE
        [exc |-> "", detail |-> <<>>,
         value |-> <<"(!) API Error (Status ", ToString(outcome.status_code), "): ">>
                   \o outcome.text]

\* Only requests.exceptions.Timeout is caught.
CompletionExcept_timeout_only(t) ==
    IF t.exc = "" THEN Returned(t.value)
    ELSE IF t.exc = "Timeout" THEN Returned(<<"(!) Request timeout. Please try again.">>)
    ELSE Raised(t.exc)

\* The except clauses: requests.exceptions.Timeout, then Exception.
CompletionExcept(t) ==
    IF t.exc = "" THEN Returned(t.value)
    ELSE IF t.exc = "Timeout" THEN Returned(<<"(!) Request timeout. Please try again.">>)
    ELSE Returned(<<"(!) Error: ">> \o t.detail)

CompletionRequest(patient_message, conversation_history, mode) ==
    LET system_config == IF mode \in DOMAIN THERAPEUTIC_SYSTEMS
                         THEN THERAPEUTIC_SYSTEMS[mode]
                         ELSE THERAPEUTIC_SYSTEMS["exploratory_dialogue"]
    IN  [ messages    |-> << [role |-> "system", content |-> system_config.system_prompt] >>
                          \o build_conversation_context(conversation_history, DEFAULT_MAX_TURNS)
                          \o << [role |-> "user", content |-> patient_message] >>,
          temperature |-> system_config.temperature,
          max_tokens  |-> "1000" ]

\* reply: what the call returns or raises; requests: the requests it posted.
generate_ai_response(patient_message, conversation_history, mode, api_key, outcome) ==
    IF api_key = ""
    THEN [ reply    |-> Returned(<<"(!) API Key not configured. Please add your Groq API key in the sidebar.">>),
           requests |-> <<>> ]
    ELSE [ reply    |-> CompletionExcept(CompletionTry(outcome)),
           requests |-> << CompletionRequest(patient_message, conversation_history, mode) >> ]

RECURSIVE TranscriptLines(_)
TranscriptLines(history) ==
    IF history = <<>> THEN <<>>
    ELSE LET turn == Head(history)
         IN  ( IF turn.speaker \in {"PATIENT", "THERAPIST"}
               THEN << <<turn.speaker, ": ">> \o turn.message >>
               ELSE <<>> )
             \o TranscriptLines(Tail(history))

\* "\n".join(lines)
RECURSIVE JoinLines(_)
JoinLines(lines) ==
    IF lines = <<>> THEN <<>>
    ELSE IF Len(lines) = 1 THEN lines[1]
    ELSE lines[1] \o <<"\n">> \o JoinLines(Tail(lines))

SummaryRequest(history) ==
    [ messages    |-> << [role |-> "system",
                          content |-> <<"You are a clinical supervisor reviewing therapy session notes.">>],
                         [role |-> "user",
                          content |-> <<"Review this therapeutic conversation ... Conversation:\n">>
                                      \o JoinLines(TranscriptLines(history))
                                      \o <<"\n\nClinical Summary:">>] >>,
          temperature |-> "0.5",
          max_tokens  |-> "300" ]

generate_session_summary(history, api_key, outcome) ==
    IF history = <<>> THEN <<"No conversation occurred.">>
    ELSE IF api_key = "" THEN <<"API key not configured.">>
    ELSE IF outcome.exc # "" THEN <<"Summary generation failed.">>
    ELSE IF outcome.status_code = 200 THEN
        IF outcome.json.has_choices THEN strip(outcome.json.content)
        ELSE <<"Summary generation failed.">>
    ELSE <<"Could not generate summary.">>

-----------------------------------------------------------------------------
(* The Streamlit script.  Each action is the run one widget event triggers,  *)
(* up to and including the run that st.rerun() starts.                       *)

Op(op, input, outcome, reply, requests) ==
    [op |-> op, input |-> input, outcome |-> outcome, reply |-> reply, requests |-> requests]

\* One save_turn call, as the history variable records it.
TurnCall(ts, session_id, speaker, message, message_type) ==
    [ timestamp |-> ts, session_id |-> session_id, speaker |-> speaker,
      message |-> message, message_type |-> message_type ]

\* What the handlers append to the cached history (no metadata key).
CachedTurn(ts, speaker, message, message_type) ==
    [ speaker |-> speaker, message |-> message, message_type |-> message_type,
      timestamp |-> ts ]

\* "Reload history from DB to ensure consistency": the main area of every run.
ReloadHistory(d, session_id, history) ==
    IF Truthy(session_id) /\ history = <<>>
    THEN get_session_history(d, session_id[1])
    ELSE history

\* The sessions the "Past Sessions" browser offers: all_sessions.head(5).
HEAD_ROWS == 5

LoadableSessions(d) ==
    LET all == get_all_sessions(d)
    IN  { all[i].id : i \in 1..(IF Len(all) < HEAD_ROWS THEN Len(all) ELSE HEAD_ROWS) }

Init ==
    /\ db = init_db
    /\ now = 0
    /\ current_session_id = None
    /\ session_history = <<>>
    /\ therapeutic_mode = "exploratory_dialogue"
    /\ groq_api_key = ""
    /\ lastOp = Op("init", <<>>, NoOutcome, NoReply, <<>>)
    /\ appended = <<>>
    /\ call = [fn |-> "none"]

\* The sidebar's API key text input.
SetApiKey(api_key_input) ==
    /\ api_key_input # groq_api_key
    /\ groq_api_key' = api_key_input
    /\ session_history' = ReloadHistory(db, current_session_id, session_history)
    /\ lastOp' = Op("api_key", <<>>, NoOutcome, NoReply, <<>>)
    /\ UNCHANGED <<db, now, current_session_id, therapeutic_mode, appended, call>>

\* The mode selectbox of an active session.
ChangeMode(selected_mode) ==
    /\ Truthy(current_session_id)
    /\ selected_mode # therapeutic_mode
    /\ now + 1 <= MaxTime
    /\ LET message == <<"Therapeutic mode changed to: ", mode_labels[selected_mode]>>
           d1 == save_turn(db, now, current_session_id[1], "SYSTEM", message, "mode_change")
       IN  /\ db' = d1
           /\ appended' = Append(appended,
                  TurnCall(now, current_session_id[1], "SYSTEM", message, "mode_change"))
           /\ session_history' = ReloadHistory(d1, current_session_id, session_history)
    /\ therapeutic_mode' = selected_mode
    /\ now' = now + 1
    /\ lastOp' = Op("mode_change", <<>>, NoOutcome, NoReply, <<>>)
    /\ UNCHANGED <<current_session_id, groq_api_key, call>>

\* The "End Session" button of an active session.
EndSession(outcome) ==
    /\ Truthy(current_session_id)
    /\ now + 1 <= MaxTime
    /\ LET summary == generate_session_summary(session_history, groq_api_key, outcome)
       IN  db' = end_session(db, now, current_session_id[1], summary)
    /\ current_session_id' = None
    /\ session_history' = ReloadHistory(db', None, <<>>)
    /\ now' = now + 1
    /\ lastOp' = Op("end", <<>>, outcome, NoReply, <<>>)
    /\ UNCHANGED <<therapeutic_mode, groq_api_key, appended, call>>

\* The "Start New Session" button, shown when no session is active and
\* disabled without an API key.
StartNewSession(session_type, patient_id) ==
    /\ ~Truthy(current_session_id)
    /\ groq_api_key # ""
    /\ Cardinality(db.sessions) < MaxSessions
    /\ now + 3 <= MaxTime
    /\ LET created    == create_session(db, now, session_type, patient_id)
           session_id == created.session_id
           opening    == <<"Session started: ", session_type>>
           d1 == save_turn(created.db, now + 1, session_id, "SYSTEM", opening, "session_start")
           d2 == save_turn(d1, now + 2, session_id, "THERAPIST", GREETING, "greeting")
       IN  /\ db' = d2
           /\ current_session_id' = Some(session_id)
           /\ appended' = appended \o
                  << TurnCall(now + 1, session_id, "SYSTEM", opening, "session_start"),
                     TurnCall(now + 2, session_id, "THERAPIST", GREETING, "greeting") >>
           /\ session_history' = ReloadHistory(d2, Some(session_id), <<>>)
    /\ therapeutic_mode' = "exploratory_dialogue"
    /\ now' = now + 3
    /\ lastOp' = Op("start", <<>>, NoOutcome, NoReply, <<>>)
    /\ UNCHANGED <<groq_api_key, call>>

\* A "Load Session #id" button of the session browser.
\* The handler also saves the greeting turn, as the start handler does.
LoadSession_greets(id) ==
    /\ id \in LoadableSessions(db)
    /\ now + 1 <= MaxTime
    /\ current_session_id' = Some(id)
    /\ db' = save_turn(db, now, id, "THERAPIST", GREETING, "greeting")
    /\ appended' = Append(appended, TurnCall(now, id, "THERAPIST", GREETING, "greeting"))
    /\ session_history' = ReloadHistory(db', Some(id), get_session_history(db', id))
    /\ now' = now + 1
    /\ lastOp' = Op("load", <<ToString(id)>>, NoOutcome, NoReply, <<>>)
    /\ UNCHANGED <<therapeutic_mode, groq_api_key, call>>

\* lastOp.input names the session whose button was pressed.
LoadSession(id) ==
    /\ id \in LoadableSessions(db)
    /\ current_session_id' = Some(id)
    /\ session_history' = ReloadHistory(db, Some(id), get_session_history(db, id))
    /\ lastOp' = Op("load", <<ToString(id)>>, NoOutcome, NoReply, <<>>)
    /\ UNCHANGED <<db, now, therapeutic_mode, groq_api_key, appended, call>>

\* The "Send" button of the main area, disabled without an API key.
Send(patient_input, outcome) ==
    /\ Truthy(current_session_id)
    /\ groq_api_key # ""
    /\ now + 4 <= MaxTime
    /\ LET session_id == current_session_id[1]
           text == strip(patient_input)
           h0 == ReloadHistory(db, current_session_id, session_history)
           d1 == save_turn(db, now, session_id, "PATIENT", text, "dialogue")
           h1 == Append(h0, CachedTurn(now + 1, "PATIENT", text, "dialogue"))
           ai == generate_ai_response(text, h1, therapeutic_mode, groq_api_key, outcome)
           ai_response == ai.reply.value
           d2 == save_turn(d1, now + 2, session_id, "THERAPIST", ai_response, "dialogue")
           h2 == Append(h1, CachedTurn(now + 3, "THERAPIST", ai_response, "dialogue"))
       IN  IF text = <<>> THEN
               \* send_button and patient_input.strip() is false: nothing is done
               /\ session_history' = h0
               /\ lastOp' = Op("submit", patient_input, NoOutcome, NoReply, <<>>)
               /\ UNCHANGED <<db, now, appended>>
           ELSE IF ai.reply.raised THEN
               \* the exception ends the run after the patient turn
               /\ db' = d1
               /\ session_history' = h1
               /\ appended' = Append(appended,
                      TurnCall(now, session_id, "PATIENT", text, "dialogue"))
               /\ now' = now + 2
               /\ lastOp' = Op("submit", patient_input, outcome, ai.reply, ai.requests)
           ELSE
               /\ db' = d2
               /\ session_history' = ReloadHistory(d2, current_session_id, h2)
               /\ appended' = appended \o
                      << TurnCall(now, session_id, "PATIENT", text, "dialogue"),
                         TurnCall(now + 2, session_id, "THERAPIST", ai_response, "dialogue") >>
               /\ now' = now + 4
               /\ lastOp' = Op("submit", patient_input, outcome, ai.reply, ai.requests)
    /\ UNCHANGED <<current_session_id, therapeutic_mode, groq_api_key, call>>

\* The "Clear Chat Display" button.
ClearChatDisplay ==
    /\ Truthy(current_session_id)
    /\ session_history' = ReloadHistory(db, current_session_id, <<>>)
    /\ lastOp' = Op("clear", <<>>, NoOutcome, NoReply, <<>>)
    /\ UNCHANGED <<db, now, current_session_id, therapeutic_mode, groq_api_key, appended, call>>

Next ==
    \/ \E k \in API_KEYS : SetApiKey(k)
    \/ \E m \in MODE_CHOICES : ChangeMode(m)
    \/ \E o \in SUMMARY_OUTCOMES : EndSession(o)
    \/ \E t \in SESSION_TYPES, p \in PATIENT_IDS : StartNewSession(t, p)
    \/ \E id \in 1..MaxSessions : LoadSession(id)
    \/ \E i \in PATIENT_INPUTS, o \in OUTCOMES : Send(i, o)
    \/ ClearChatDisplay

Spec == Init /\ [][Next]_vars

-----------------------------------------------------------------------------
(* Direct calls of build_conversation_context, on histories the handlers    *)
(* do not reach with max_turns at its default.                              *)

CONTEXT_TURNS ==
    { [speaker |-> "PATIENT",   message |-> <<"p1">>, message_type |-> "dialogue"],
      [speaker |-> "PATIENT",   message |-> <<"p2">>, message_type |-> "dialogue"],
      [speaker |-> "THERAPIST", message |-> <<"t1">>, message_type |-> "dialogue"],
      [speaker |-> "SYSTEM",    message |-> <<"s1">>, message_type |-> "mode_change"] }

RECURSIVE Histories(_)
Histories(n) ==
    IF n = 0 THEN { <<>> }
    ELSE LET shorter == Histories(n - 1)
         IN  shorter \cup { Append(h, t) : h \in shorter, t \in CONTEXT_TURNS }

CallBuildContext(history, max_turns) ==
    /\ call' = [ fn        |-> "build_conversation_context",
                 history   |-> history,
                 max_turns |-> max_turns,
                 result    |-> build_conversation_context(history, max_turns) ]
    /\ UNCHANGED <<db, now, appended>>
    /\ UNCHANGED uiVars

NextContext ==
    \E h \in Histories(MaxHistory), n \in 0..MaxWindow : CallBuildContext(h, n)

SpecContext == Init /\ [][NextContext]_vars

-----------------------------------------------------------------------------
(* Direct calls of the storage functions, with any arguments.               *)

API_SPEAKERS == SPEAKERS \cup {"NURSE"}

ApiCreateSession(session_type, patient_id) ==
    /\ now < MaxApiCalls
    /\ LET created == create_session(db, now, session_type, patient_id)
       IN  /\ db' = created.db
           /\ call' = [fn |-> "create_session", session_id |-> created.session_id,
                       speaker |-> "", result |-> <<>>]
    /\ now' = now + 1
    /\ UNCHANGED appended
    /\ UNCHANGED uiVars

ApiEndSession(session_id, summary) ==
    /\ now < MaxApiCalls
    /\ db' = end_session(db, now, session_id, summary)
    /\ call' = [fn |-> "end_session", session_id |-> session_id,
                speaker |-> "", result |-> <<>>]
    /\ now' = now + 1
    /\ UNCHANGED appended
    /\ UNCHANGED uiVars

ApiSaveTurn(session_id, speaker, message, message_type) ==
    /\ now < MaxApiCalls
    /\ db' = save_turn(db, now, session_id, speaker, message, message_type)
    /\ appended' = Append(appended, TurnCall(now, session_id, speaker, message, message_type))
    /\ call' = [fn |-> "save_turn", session_id |-> session_id,
                speaker |-> speaker, result |-> <<>>]
    /\ now' = now + 1
    /\ UNCHANGED uiVars

ApiGetSessionHistory(session_id) ==
    /\ call' = [fn |-> "get_session_history", session_id |-> session_id,
                speaker |-> "", result |-> get_session_history(db, session_id)]
    /\ UNCHANGED <<db, now, appended>>
    /\ UNCHANGED uiVars

NextStorage ==
    \/ \E t \in SESSION_TYPES, p \in PATIENT_IDS : ApiCreateSession(t, p)
    \/ \E id \in 1..MaxSessions : ApiEndSession(id, <<"summary">>)
    \/ \E id \in 1..MaxSessions, sp \in API_SPEAKERS :
          ApiSaveTurn(id, sp, <<"hi">>, "dialogue")
    \/ \E id \in 1..MaxSessions : ApiGetSessionHistory(id)

SpecStorage == Init /\ [][NextStorage]_vars

-----------------------------------------------------------------------------
(* Vocabulary of the properties *)

SessionIds(d) == { s.id : s \in d.sessions }

SessionRow(d, id) == CHOOSE s \in d.sessions : s.id = id

RECURSIVE TurnKeys(_)
TurnKeys(turns) ==
    IF turns = <<>> THEN <<>>
    ELSE << [ timestamp    |-> Head(turns).timestamp,
              speaker      |-> Head(turns).speaker,
              message      |-> Head(turns).message,
              message_type |-> Head(turns).message_type ] >>
         \o TurnKeys(Tail(turns))

RECURSIVE Speakers(_)
Speakers(turns) ==
    IF turns = <<>> THEN <<>> ELSE <<Head(turns).speaker>> \o Speakers(Tail(turns))

RECURSIVE MessageTypes(_)
MessageTypes(turns) ==
    IF turns = <<>> THEN <<>> ELSE <<Head(turns).message_type>> \o MessageTypes(Tail(turns))

RECURSIVE CallsFor(_, _)
CallsFor(calls, session_id) ==
    IF calls = <<>> THEN <<>>
    ELSE ( IF Head(calls).session_id = session_id THEN <<Head(calls)>> ELSE <<>> )
         \o CallsFor(Tail(calls), session_id)

\* The end-keywords of the orchestrator's submit, and the test on the
\* trimmed, lowercased text.
END_KEYWORDS ==
    { <<"/", "/", "e", "n", "d">>,
      <<"/", "/", "c", "l", "o", "s", "e">>,
      <<"/", "/", "f", "i", "n", "i", "s", "h">>,
      <<"/", "/", "d", "o", "n", "e">> }

UPPER_TO_LOWER ==
    [ A |-> "a", B |-> "b", C |-> "c", D |-> "d", E |-> "e", F |-> "f", G |-> "g",
      H |-> "h", I |-> "i", J |-> "j", K |-> "k", L |-> "l", M |-> "m", N |-> "n",
      O |-> "o", P |-> "p", Q |-> "q", R |-> "r", S |-> "s", T |-> "t", U |-> "u",
      V |-> "v", W |-> "w", X |-> "x", Y |-> "y", Z |-> "z" ]

RECURSIVE lower(_)
lower(t) ==
    IF t = <<>> THEN <<>>
    ELSE << IF Head(t) \in DOMAIN UPPER_TO_LOWER THEN UPPER_TO_LOWER[Head(t)] ELSE Head(t) >>
         \o lower(Tail(t))

HasEndKeyword(patient_input) ==
    LET t == lower(strip(patient_input))
    IN  \E k \in END_KEYWORDS : \E i \in 1..Len(t) :
            /\ i + Len(k) - 1 <= Len(t)
            /\ SubSeq(t, i, i + Len(k) - 1) = k

\* v is c without its leading and trailing whitespace.
IsTrimOf(v, c) ==
    \E i \in 1..(Len(c) + 1) : \E j \in 0..Len(c) :
        /\ v = SubSeq(c, i, j)
        /\ \A k \in 1..Len(c) : (k < i \/ k > j) => IsSpace(c[k])
        /\ v # <<>> => ~IsSpace(v[1]) /\ ~IsSpace(v[Len(v)])

-----------------------------------------------------------------------------
(* C1 *)

\* C1: for every session id, get_session_history returns exactly the turns
\* that save_turn was called with for that session, in call order, and
\* none of another session.
C1_HistoryIsAppendOrder ==
    \A id \in 1..(MaxSessions + 1) :
        TurnKeys(get_session_history(db, id)) = TurnKeys(CallsFor(appended, id))

\* Two sessions hold turns, and the turns of one were written both before
\* and after a turn of the other.
C1_Witness ==
    \E a, b, c \in db.conversation_turns :
        /\ a.id < b.id /\ b.id < c.id
        /\ a.session_id = c.session_id
        /\ a.session_id # b.session_id
        /\ Len(get_session_history(db, a.session_id)) >= 3

-----------------------------------------------------------------------------
(* C2 *)

\* C2: for every history and every window size n >= 0,
\* build_conversation_context(history, n) returns at most n messages, and
\* none of them carries the message of a SYSTEM turn of the history.
C2_ContextWithinWindow ==
    (call.fn = "build_conversation_context" /\ call.max_turns >= 0) =>
        /\ Len(call.result) <= call.max_turns
        /\ \A i \in 1..Len(call.result) : \A j \in 1..Len(call.history) :
               call.history[j].speaker = "SYSTEM" =>
                   call.result[i].content # call.history[j].message

-----------------------------------------------------------------------------
(* C3 *)

\* C3: in an active session, a submit whose trimmed, lowercased text
\* contains an end-keyword appends the patient turn, ends the session (end
\* timestamp set, no current session afterwards), posts no completion
\* request and appends no THERAPIST turn.
C3_KeywordEndsSession ==
    [][ ( /\ lastOp'.op = "submit"
          /\ Truthy(current_session_id)
          /\ HasEndKeyword(lastOp'.input) )
        => LET id  == current_session_id[1]
               new == db'.conversation_turns \ db.conversation_turns
           IN  /\ \E r \in new : /\ r.session_id = id
                                 /\ r.speaker = "PATIENT"
                                 /\ r.message = strip(lastOp'.input)
               /\ SessionRow(db', id).ended_at # NULL
               /\ current_session_id' = None
               /\ lastOp'.requests = <<>>
               /\ \A r \in new : r.speaker # "THERAPIST" ]_vars

-----------------------------------------------------------------------------
(* C4 *)

\* C4: in an active session, a submit of a non-blank message without an
\* end-keyword appends exactly two turns, both to the current session: a
\* PATIENT turn with the trimmed text, then a THERAPIST turn holding what
\* the completion call returned, whatever the outcome of the request; the
\* session stays current and is not ended.
C4_SubmitAppendsTwoTurns ==
    [][ ( /\ lastOp'.op = "submit"
          /\ Truthy(current_session_id)
          /\ strip(lastOp'.input) # <<>>
          /\ ~HasEndKeyword(lastOp'.input) )
        => LET id     == current_session_id[1]
               before == get_session_history(db, id)
               after  == get_session_history(db', id)
               n      == Len(before)
           IN  /\ db.conversation_turns \subseteq db'.conversation_turns
               /\ Cardinality(db'.conversation_turns) = Cardinality(db.conversation_turns) + 2
               /\ Len(after) = n + 2
               /\ SubSeq(after, 1, n) = before
               /\ after[n + 1].speaker = "PATIENT"
               /\ after[n + 1].message = strip(lastOp'.input)
               /\ after[n + 2].speaker = "THERAPIST"
               /\ ~lastOp'.reply.raised
               /\ after[n + 2].message = lastOp'.reply.value
               /\ Len(lastOp'.requests) = 1
               /\ current_session_id' = current_session_id
               /\ db'.sessions = db.sessions ]_vars

\* A submit whose request failed with a transport error has stored the
\* placeholder as the THERAPIST turn that ends the session's history.
C4_Witness ==
    /\ lastOp.op = "submit"
    /\ lastOp.outcome.exc = "ConnectionError"
    /\ Truthy(current_session_id)
    /\ LET h == get_session_history(db, current_session_id[1])
       IN  /\ Len(h) >= 4
           /\ h[Len(h) - 1].speaker = "PATIENT"
           /\ h[Len(h)].speaker = "THERAPIST"
           /\ h[Len(h)].message = <<"(!) Error: ", "connection refused">>

-----------------------------------------------------------------------------
(* C5 *)

\* C5: once a session's end timestamp and summary are set they never change
\* again, under any handler; and the end handler adds no turn row.
C5_EndedOnce ==
    [][ /\ \A s \in db.sessions :
              s.ended_at # NULL =>
                  /\ SessionRow(db', s.id).ended_at = s.ended_at
                  /\ SessionRow(db', s.id).summary = s.summary
        /\ lastOp'.op = "end" => db'.conversation_turns = db.conversation_turns ]_vars

-----------------------------------------------------------------------------
(* C6 *)

TransportErrorText(detail) == <<"(!) Error: ">> \o detail

\* C6: the completion call posts one request and returns, never raises:
\* the trimmed first choice on 200, the invalid-key text on 401, the
\* rate-limit text on 429, the API-error text with the status on any other
\* status, the timeout text on a timeout, and the error text with the detail
\* on any other failure, a 200 body without choices included.
C6_CompletionClassified ==
    (lastOp.op = "submit" /\ lastOp.requests # <<>>) =>
        LET o == lastOp.outcome
            v == lastOp.reply.value
        IN  /\ Len(lastOp.requests) = 1
            /\ ~lastOp.reply.raised
            /\ (o.exc = "Timeout") =>
                   v = <<"(!) Request timeout. Please try again.">>
            /\ (o.exc # "" /\ o.exc # "Timeout") => v = TransportErrorText(o.detail)
            /\ (o.exc = "" /\ o.status_code = 200 /\ o.json.has_choices) =>
                   IsTrimOf(v, o.json.content)
            /\ (o.exc = "" /\ o.status_code = 200 /\ ~o.json.has_choices) =>
                   /\ Len(v) > 1
                   /\ v = TransportErrorText(SubSeq(v, 2, Len(v)))
            /\ (o.exc = "" /\ o.status_code = 401) =>
                   v = <<"(!) Invalid API Key. Please check your Groq API key.">>
            /\ (o.exc = "" /\ o.status_code = 429) =>
                   v = <<"(!) Rate limit exceeded. Please wait a moment and try again.">>
            /\ (o.exc = "" /\ o.status_code \notin {200, 401, 429}) =>
                   v = <<"(!) API Error (Status ", ToString(o.status_code), "): ">> \o o.text

\* A request answered 429 has been classified.
C6_Witness ==
    /\ lastOp.op = "submit"
    /\ lastOp.outcome.status_code = 429
    /\ lastOp.reply.value = <<"(!) Rate limit exceeded. Please wait a moment and try again.">>

-----------------------------------------------------------------------------
(* C7 *)

\* C7: start runs only with no current session; it adds one session row
\* with ended_at and summary NULL, makes it current and gives it exactly
\* two turns, SYSTEM session_start then THERAPIST greeting; and a non-blank
\* submit without an end-keyword right after it leaves the session with
\* the four turns SYSTEM, THERAPIST, PATIENT, THERAPIST.
C7_StartThenSubmit ==
    [][ /\ lastOp'.op = "start" =>
              /\ ~Truthy(current_session_id)
              /\ db.sessions \subseteq db'.sessions
              /\ \E s \in db'.sessions \ db.sessions :
                     /\ db'.sessions = db.sessions \cup {s}
                     /\ s.id \notin SessionIds(db)
                     /\ s.ended_at = NULL
                     /\ s.summary = NULL
                     /\ current_session_id' = Some(s.id)
                     /\ { r.session_id : r \in db'.conversation_turns \ db.conversation_turns }
                            = {s.id}
                     /\ Speakers(get_session_history(db', s.id)) = <<"SYSTEM", "THERAPIST">>
                     /\ MessageTypes(get_session_history(db', s.id))
                            = <<"session_start", "greeting">>
        /\ ( /\ lastOp.op = "start"
             /\ lastOp'.op = "submit"
             /\ strip(lastOp'.input) # <<>>
             /\ ~HasEndKeyword(lastOp'.input) )
           => /\ current_session_id' = current_session_id
              /\ Speakers(get_session_history(db', current_session_id[1]))
                     = <<"SYSTEM", "THERAPIST", "PATIENT", "THERAPIST">>
              /\ get_session_history(db', current_session_id[1])[4].message
                     = lastOp'.reply.value ]_vars

\* The scenario: a started session after one submit answered with 200.
C7_Witness ==
    /\ lastOp.op = "submit"
    /\ lastOp.outcome.status_code = 200
    /\ lastOp.outcome.json.has_choices
    /\ Truthy(current_session_id)
    /\ LET h == get_session_history(db, current_session_id[1])
       IN  /\ Speakers(h) = <<"SYSTEM", "THERAPIST", "PATIENT", "THERAPIST">>
           /\ MessageTypes(h) = <<"session_start", "greeting", "dialogue", "dialogue">>
           /\ h[3].message = <<"h", "i">>
           /\ h[4].message = <<"T", "e", "l", "l", " ", "m", "e">>

-----------------------------------------------------------------------------
(* C8 *)

-----------------------------------------------------------------------------
(* C9 *)

\* C9: a save_turn call whose speaker is none of PATIENT, THERAPIST, SYSTEM
\* leaves the stored turn rows as they were.
C9_UnknownSpeakerRejected ==
    [][ (call'.fn = "save_turn" /\ call'.speaker \notin SPEAKERS)
        => db'.conversation_turns = db.conversation_turns ]_vars

-----------------------------------------------------------------------------
(* C10 *)

\* The reference: the last maxTurns turns (all if fewer), oldest first,
\* SYSTEM turns dropped, PATIENT as user and THERAPIST as assistant.
ContextReference(history, maxTurns) ==
    LET n      == Len(history)
        k      == IF maxTurns < n THEN maxTurns ELSE n
        window == SubSeq(history, n - k + 1, n)
        kept   == SelectSeq(window, LAMBDA t : t.speaker # "SYSTEM")
    IN  [ i \in 1..Len(kept) |->
            [ role    |-> IF kept[i].speaker = "PATIENT" THEN "user" ELSE "assistant",
              content |-> kept[i].message ] ]

\* C10: for every history and window size, build_conversation_context
\* returns the reference list.
C10_ContextIsReference ==
    call.fn = "build_conversation_context" =>
        LET reference == ContextReference(call.history, call.max_turns)
        IN  /\ Len(call.result) = Len(reference)
            /\ \A i \in 1..Len(call.result) : call.result[i] = reference[i]

-----------------------------------------------------------------------------
(* C11 *)

\* C11: a Load Session #id taken with no current session makes id the
\* current session, sets the cached history to get_session_history(id),
\* and leaves every session row and every turn row as it was.
C11_LoadWritesNothing ==
    [][ (lastOp'.op = "load" /\ ~Truthy(current_session_id))
        => \E id \in SessionIds(db) :
               /\ lastOp'.input = <<ToString(id)>>
               /\ current_session_id' = Some(id)
               /\ session_history' = get_session_history(db, id)
               /\ db'.conversation_turns = db.conversation_turns
               /\ db'.sessions = db.sessions ]_vars

\* An ended session has been loaded: it is current again and the cache
\* holds its stored turns, the greeting once.
C11_Witness ==
    /\ lastOp.op = "load"
    /\ Truthy(current_session_id)
    /\ SessionRow(db, current_session_id[1]).ended_at # NULL
    /\ session_history = get_session_history(db, current_session_id[1])
    /\ Len(session_history) >= 2
    /\ Cardinality({ r \in db.conversation_turns :
                       r.session_id = current_session_id[1] /\ r.message_type = "greeting" }) = 1

-----------------------------------------------------------------------------
(* C12 *)

RECURSIVE Entries(_)
Entries(history) ==
    IF history = <<>> THEN <<>>
    ELSE << << Head(history).speaker, Head(history).message, Head(history).message_type >> >>
         \o Entries(Tail(history))

\* C12: whenever a session is current and the cached history is not empty,
\* the cache lists the same (speaker, message, message type) entries, in
\* the same order, as get_session_history of the current session.
C12_CacheMatchesStore ==
    (Truthy(current_session_id) /\ session_history # <<>>) =>
        Entries(session_history)
            = Entries(get_session_history(db, current_session_id[1]))

-----------------------------------------------------------------------------
(* C13 *)

\* C13: the message list a submit posts is one system message, then the
\* context built from the history as it was before the submit, then the
\* submitted text as the last user message; that text is in the list once.
C13_MessageSentOnce ==
    [][ (lastOp'.op = "submit" /\ lastOp'.requests # <<>>)
        => LET messages == lastOp'.requests[1].messages
               n        == Len(messages)
               latest   == [role |-> "user", content |-> strip(lastOp'.input)]
           IN  /\ n >= 2
               /\ messages[1].role = "system"
               /\ \A i \in 2..n : messages[i].role # "system"
               /\ messages[n] = latest
               /\ SubSeq(messages, 2, n - 1)
                      = build_conversation_context(session_history, DEFAULT_MAX_TURNS)
               /\ Cardinality({ i \in 1..n : messages[i] = latest }) = 1 ]_vars

====
